---- MODULE Spec2Model ----
\* gerbst: an in-memory keyed binary search tree.
\*   src/gerbst.go          the per-node-locking tree (type Node)
\*   src/locking.go         the LockingTree wrapper (one RWMutex, root *treeNode)
\*   src/unnamed/part_003   treeNode, its exported Node, and updateMeta; and
\*                          a second copy of the per-node tree (P3_ below)
\*
\* Pointers are indices into a heap (a sequence); index 0 is nil.  The Go
\* runtime's garbage collector is part of the model: an exported Node that no
\* treeNode points to any more is dropped from the heap when a call returns.
EXTENDS Integers, Sequences, FiniteSets, TLC

\* ---------------------------------------------------------------- bounds
MaxKey == 2
MaxListKey == 3

Keys == 0..MaxKey
\* the keys a list handed to NewWithKeys / NewLockingTreeWithKeys is made of
ListKeys == 0..MaxListKey
\* the list the repository's tests and its demo build their tree from
TestKeys == <<12, 11, 90, 82, 7, 9>>
\* interface{} values.  The code never looks into a value, it only tests it
\* against nil (New, Node.Put): the nil interface and one payload are all it
\* can tell apart, and two values are what an overwrite needs to be seen.
NilValue == -1
Values == {NilValue, 1}

\* ------------------------------------------------------------- constants
NilPtr == 0
NodeSideRoot == 1
NodeSideLeft == 2
NodeSideRight == 3

VARIABLES
    kind,     \* which tree the client works on: "Node" / "LockingTree" (Spec),
              \* "Twin" (SpecEq), "Hold" (SpecHold), "RWMutex" (SpecRW), and in
              \* SpecKeys, SpecNew, SpecConc and SpecSnap the file the tree
              \* comes from: "gerbst.go", "part_003", "locking.go"
    pn,       \* heap of gerbst.go Node objects; the receiver root is pn[1]
    lt,       \* the LockingTree and the heap below it:
              \*   root  LockingTree.root, an index into tn, or NilPtr
              \*   tn    the treeNode objects
              \*   nd    the exported Node objects the treeNodes embed by pointer
    ret,      \* what the last call returned: [node, ok] (Put returns nothing)
    lastOp,   \* the last call made: [op, key, existed]
    put,      \* history: key -> value of the most recent LockingTree Put of it
    itree,    \* a LockingTree fed only through Put
    rtree,    \* a LockingTree fed the same calls through PutRecurse
    sf,       \* the SearchFunc call in progress on pn[1], see SearchIdle;
              \* sf.mu[n] is who holds the mutex of pn[n]
    ctor,     \* the constructor call: [keys, next], the list it was handed
              \* and the index its loop has come to
    wk,       \* the client goroutines calling Put, Get, Left, Right on pn
    dn,       \* the DeepestNode call in progress on pn, see DeepestIdle
    calls,    \* history: [made, offRoot], how many calls the client
              \* goroutines made, and whether a Put among them was made on
              \* a node other than the root
    rw        \* the goroutines calling into the LockingTree, and with them
              \* the state of its RWMutex

\* what only the concurrent specifications move
conc == <<ctor, wk, dn, calls, rw>>

vars == <<kind, pn, lt, ret, lastOp, put, itree, rtree, sf, conc>>

\* ===================================================== per-node tree (Node)
Node_newNode(key, value, depth, side) ==
    [key |-> key, value |-> value, depth |-> depth, side |-> side,
     left |-> NilPtr, right |-> NilPtr]

Node_New(key, value) ==
    LET v == IF value = NilValue THEN key ELSE value
    IN Node_newNode(key, v, 0, NodeSideRoot)

\* put handing its own depth on to the node it creates
RECURSIVE Node_put_SameDepth(_, _, _, _)
Node_put_SameDepth(p, n, key, value) ==
    IF p[n].key > key
    THEN IF p[n].left = NilPtr
         THEN Append([p EXCEPT ![n].left = Len(p) + 1],
                     Node_newNode(key, value, p[n].depth, NodeSideLeft))
         ELSE Node_put_SameDepth(p, p[n].left, key, value)
    ELSE IF p[n].key < key
    THEN IF p[n].right = NilPtr
         THEN Append([p EXCEPT ![n].right = Len(p) + 1],
                     Node_newNode(key, value, p[n].depth, NodeSideRight))
         ELSE Node_put_SameDepth(p, p[n].right, key, value)
    ELSE p

RECURSIVE Node_put(_, _, _, _)
Node_put(p, n, key, value) ==
    IF p[n].key > key
    THEN IF p[n].left = NilPtr
         THEN Append([p EXCEPT ![n].left = Len(p) + 1],
                     Node_newNode(key, value, p[n].depth + 1, NodeSideLeft))
         ELSE Node_put(p, p[n].left, key, value)
    ELSE IF p[n].key < key
    THEN IF p[n].right = NilPtr
         THEN Append([p EXCEPT ![n].right = Len(p) + 1],
                     Node_newNode(key, value, p[n].depth + 1, NodeSideRight))
         ELSE Node_put(p, p[n].right, key, value)
    ELSE p

\* var v interface{}; if value == nil { v = key }; n.put(key, v)
Node_Put(p, n, key, value) ==
    LET v == IF value = NilValue THEN key ELSE NilValue
    IN Node_put(p, n, key, v)

RECURSIVE Node_putKeys(_, _, _)
Node_putKeys(p, keys, i) ==
    IF i > Len(keys) THEN p
    ELSE Node_putKeys(Node_put(p, 1, keys[i], keys[i]), keys, i + 1)

\* the heap NewWithKeys leaves behind; the node it returns is the first
Node_NewWithKeys(keys) ==
    IF Len(keys) = 0 THEN <<Node_New(0, NilValue)>>
    ELSE Node_putKeys(<<Node_New(keys[1], NilValue)>>, keys, 2)

\* the choice between the deepest of the left and of the right branch
Leafiest(p, ln, rn) ==
    IF rn = NilPtr THEN ln
    ELSE IF ln = NilPtr THEN rn
    ELSE IF p[ln].depth > p[rn].depth THEN ln
    ELSE rn

RECURSIVE Node_deepestNode(_, _)
Node_deepestNode(p, n) ==
    IF p[n].left = NilPtr /\ p[n].right = NilPtr THEN n
    ELSE Leafiest(p,
                  IF p[n].left # NilPtr THEN Node_deepestNode(p, p[n].left)
                  ELSE NilPtr,
                  IF p[n].right # NilPtr THEN Node_deepestNode(p, p[n].right)
                  ELSE NilPtr)

\* DeepestNode letting the left branch win when both are equally deep
Node_DeepestNode_LeftOnTie(p, n) ==
    IF p[n].left = NilPtr /\ p[n].right = NilPtr THEN n
    ELSE LET ln == IF p[n].left # NilPtr THEN Node_deepestNode(p, p[n].left)
                   ELSE NilPtr
             rn == IF p[n].right # NilPtr THEN Node_deepestNode(p, p[n].right)
                   ELSE NilPtr
         IN IF rn = NilPtr THEN ln
            ELSE IF ln = NilPtr THEN rn
            ELSE IF p[ln].depth >= p[rn].depth THEN ln
            ELSE rn

\* the two goroutines write ln and rn, wg.Wait() joins them before the choice
Node_DeepestNode(p, n) ==
    IF p[n].left = NilPtr /\ p[n].right = NilPtr THEN n
    ELSE Leafiest(p,
                  IF p[n].left # NilPtr THEN Node_deepestNode(p, p[n].left)
                  ELSE NilPtr,
                  IF p[n].right # NilPtr THEN Node_deepestNode(p, p[n].right)
                  ELSE NilPtr)

\* ------------- the per-node tree as src/unnamed/part_003 has it (P3_):
\* nodes know their parent, Put overwrites, Value() takes the node's lock
P3_newNode(key, value, depth, side, parent) ==
    [key |-> key, value |-> value, depth |-> depth, side |-> side,
     left |-> NilPtr, right |-> NilPtr, parent |-> parent]

P3_New(key, value) ==
    LET v == IF value = NilValue THEN key ELSE value
    IN P3_newNode(key, v, 0, NodeSideRoot, NilPtr)

\* put sending a key that is present down the left branch
RECURSIVE P3_put_EqualLeft(_, _, _, _)
P3_put_EqualLeft(p, n, key, value) ==
    IF p[n].key >= key
    THEN IF p[n].left = NilPtr
         THEN Append([p EXCEPT ![n].left = Len(p) + 1],
                     P3_newNode(key, value, p[n].depth + 1, NodeSideLeft, n))
         ELSE P3_put_EqualLeft(p, p[n].left, key, value)
    ELSE IF p[n].right = NilPtr
    THEN Append([p EXCEPT ![n].right = Len(p) + 1],
                P3_newNode(key, value, p[n].depth + 1, NodeSideRight, n))
    ELSE P3_put_EqualLeft(p, p[n].right, key, value)

RECURSIVE P3_put(_, _, _, _)
P3_put(p, n, key, value) ==
    IF p[n].key = key THEN [p EXCEPT ![n].value = value]
    ELSE IF p[n].key > key
    THEN IF p[n].left = NilPtr
         THEN Append([p EXCEPT ![n].left = Len(p) + 1],
                     P3_newNode(key, value, p[n].depth + 1, NodeSideLeft, n))
         ELSE P3_put(p, p[n].left, key, value)
    ELSE IF p[n].right = NilPtr
    THEN Append([p EXCEPT ![n].right = Len(p) + 1],
                P3_newNode(key, value, p[n].depth + 1, NodeSideRight, n))
    ELSE P3_put(p, p[n].right, key, value)

RECURSIVE P3_putKeys(_, _, _)
P3_putKeys(p, keys, i) ==
    IF i > Len(keys) THEN p
    ELSE P3_putKeys(P3_put(p, 1, keys[i], keys[i]), keys, i + 1)

P3_NewWithKeys(keys) ==
    IF Len(keys) = 0 THEN <<P3_New(0, NilValue)>>
    ELSE P3_putKeys(<<P3_New(keys[1], NilValue)>>, keys, 2)

\* ================================================= wrapper tree (treeNode)
\* a tree value: [lt]
newNode(key, value, depth, side) ==
    [key |-> key, value |-> value, depth |-> depth, side |-> side]

newTreeNode(t, key, value, depth, side, parent) ==
    [t EXCEPT
        !.nd = Append(@, newNode(key, value, depth, side)),
        !.tn = Append(@, [node |-> Len(t.nd) + 1,
                          parent |-> parent, left |-> NilPtr, right |-> NilPtr,
                          loKey |-> key, hiKey |-> key,
                          count |-> 1, countLeft |-> 0, countRight |-> 0,
                          depthMax |-> depth,
                          depthMaxLeft |-> 0, depthMaxRight |-> 0])]

\* field promotion through the embedded *Node
KeyOf(t, n) == t.nd[t.tn[n].node].key
DepthOf(t, n) == t.nd[t.tn[n].node].depth
SideOf(t, n) == t.nd[t.tn[n].node].side
ValueOf(t, n) == t.nd[t.tn[n].node].value

Max(a, b) == IF a < b THEN b ELSE a

\* updateMeta that widens loKey but forgets hiKey
RECURSIVE updateMetaLoop_NoHiKey(_, _, _, _, _)
updateMetaLoop_NoHiKey(t, srcDepth, srcKey, local, parent) ==
    IF parent = NilPtr THEN t
    ELSE
      LET p == t.tn[parent]
          side == t.nd[t.tn[local].node].side
          p1 == [p EXCEPT !.count = @ + 1]
          p2 == IF side = NodeSideLeft
                THEN [p1 EXCEPT !.countLeft = @ + 1,
                                !.depthMaxLeft = Max(@, srcDepth)]
                ELSE IF side = NodeSideRight
                THEN [p1 EXCEPT !.countRight = @ + 1,
                                !.depthMaxRight = Max(@, srcDepth)]
                ELSE p1
          p3 == [p2 EXCEPT !.depthMax = Max(@, srcDepth)]
          p4 == IF p3.loKey > srcKey THEN [p3 EXCEPT !.loKey = srcKey]
                ELSE p3
      IN updateMetaLoop_NoHiKey([t EXCEPT !.tn[parent] = p4],
                                srcDepth, srcKey, parent, p.parent)

RECURSIVE updateMetaLoop(_, _, _, _, _)
updateMetaLoop(t, srcDepth, srcKey, local, parent) ==
    IF parent = NilPtr THEN t
    ELSE
      LET p == t.tn[parent]
          side == SideOf(t, local)
          p1 == [p EXCEPT !.count = @ + 1]
          p2 == IF side = NodeSideLeft
                THEN [p1 EXCEPT !.countLeft = @ + 1,
                                !.depthMaxLeft = Max(@, srcDepth)]
                ELSE IF side = NodeSideRight
                THEN [p1 EXCEPT !.countRight = @ + 1,
                                !.depthMaxRight = Max(@, srcDepth)]
                ELSE p1
          p3 == [p2 EXCEPT !.depthMax = Max(@, srcDepth)]
          p4 == IF p3.loKey > srcKey THEN [p3 EXCEPT !.loKey = srcKey]
                ELSE IF p3.hiKey < srcKey THEN [p3 EXCEPT !.hiKey = srcKey]
                ELSE p3
      IN updateMetaLoop([t EXCEPT !.tn[parent] = p4],
                        srcDepth, srcKey, parent, p.parent)

updateMeta(t, src) ==
    updateMetaLoop(t, DepthOf(t, src), KeyOf(t, src), src, t.tn[src].parent)

\* an overwrite that also runs updateMeta on the overwritten node
replaceNode_Counted(t, n, key, value, depth, side) ==
    updateMeta([t EXCEPT !.nd = Append(@, newNode(key, value, depth, side)),
                         !.tn[n].node = Len(t.nd) + 1], n)

\* n.Node = newNode(key, value, depth, side): a fresh Node replaces the old
replaceNode(t, n, key, value, depth, side) ==
    [t EXCEPT !.nd = Append(@, newNode(key, value, depth, side)),
              !.tn[n].node = Len(t.nd) + 1]

attachLeft(t, n, key, value) ==
    LET new == Len(t.tn) + 1
        t1 == newTreeNode(t, key, value, DepthOf(t, n) + 1, NodeSideLeft, n)
    IN updateMeta([t1 EXCEPT !.tn[n].left = new], new)

attachRight(t, n, key, value) ==
    LET new == Len(t.tn) + 1
        t1 == newTreeNode(t, key, value, DepthOf(t, n) + 1, NodeSideRight, n)
    IN updateMeta([t1 EXCEPT !.tn[n].right = new], new)

\* treeNode.Put with the key comparison turned round
RECURSIVE treeNode_PutWalk_Flipped(_, _, _, _, _)
treeNode_PutWalk_Flipped(t, rcv, n, key, value) ==
    IF n = NilPtr THEN t
    ELSE IF KeyOf(t, n) = key
    THEN replaceNode(t, n, key, value, DepthOf(t, rcv), SideOf(t, rcv))
    ELSE IF KeyOf(t, n) < key
    THEN IF t.tn[n].left = NilPtr
         THEN attachLeft(t, n, key, value)
         ELSE treeNode_PutWalk_Flipped(t, rcv, t.tn[n].left, key, value)
    ELSE IF t.tn[n].right = NilPtr
    THEN attachRight(t, n, key, value)
    ELSE treeNode_PutWalk_Flipped(t, rcv, t.tn[n].right, key, value)

\* the walk of treeNode.Put: rcv is the receiver tn, n the loop variable
RECURSIVE treeNode_PutWalk(_, _, _, _, _)
treeNode_PutWalk(t, rcv, n, key, value) ==
    IF n = NilPtr THEN t
    ELSE IF KeyOf(t, n) = key
    THEN replaceNode(t, n, key, value, DepthOf(t, rcv), SideOf(t, rcv))
    ELSE IF KeyOf(t, n) > key
    THEN IF t.tn[n].left = NilPtr
         THEN attachLeft(t, n, key, value)
         ELSE treeNode_PutWalk(t, rcv, t.tn[n].left, key, value)
    ELSE IF t.tn[n].right = NilPtr
    THEN attachRight(t, n, key, value)
    ELSE treeNode_PutWalk(t, rcv, t.tn[n].right, key, value)

treeNode_Put(t, rcv, key, value) == treeNode_PutWalk(t, rcv, rcv, key, value)

RECURSIVE treeNode_PutRecurse(_, _, _, _)
treeNode_PutRecurse(t, n, key, value) ==
    IF KeyOf(t, n) = key
    THEN replaceNode(t, n, key, value, DepthOf(t, n), SideOf(t, n))
    ELSE IF KeyOf(t, n) > key
    THEN IF t.tn[n].left = NilPtr
         THEN attachLeft(t, n, key, value)
         ELSE treeNode_PutRecurse(t, t.tn[n].left, key, value)
    ELSE IF t.tn[n].right = NilPtr
    THEN attachRight(t, n, key, value)
    ELSE treeNode_PutRecurse(t, t.tn[n].right, key, value)

NotFound == [node |-> NilPtr, ok |-> FALSE]

\* the walk of treeNode.Get, followed by its response handling
RECURSIVE treeNode_GetWalk(_, _, _)
treeNode_GetWalk(t, n, key) ==
    IF n = NilPtr THEN NilPtr
    ELSE IF KeyOf(t, n) = key THEN n
    ELSE IF KeyOf(t, n) > key /\ t.tn[n].left # NilPtr
    THEN treeNode_GetWalk(t, t.tn[n].left, key)
    ELSE IF KeyOf(t, n) < key /\ t.tn[n].right # NilPtr
    THEN treeNode_GetWalk(t, t.tn[n].right, key)
    ELSE NilPtr

treeNode_Get(t, rcv, key) ==
    LET n == treeNode_GetWalk(t, rcv, key)
    IN IF n = NilPtr THEN NotFound
       ELSE [node |-> t.tn[n].node, ok |-> TRUE]

\* treeNode.GetRecurse whose right branch repeats the left branch's comparison
RECURSIVE treeNode_GetRecurse_LeftOnly(_, _, _)
treeNode_GetRecurse_LeftOnly(t, n, key) ==
    IF KeyOf(t, n) = key
    THEN [node |-> t.tn[n].node, ok |-> TRUE]
    ELSE IF KeyOf(t, n) > key /\ t.tn[n].left # NilPtr
    THEN LET ln == treeNode_GetRecurse_LeftOnly(t, t.tn[n].left, key)
         IN IF ln.ok THEN ln ELSE NotFound
    ELSE IF KeyOf(t, n) > key /\ t.tn[n].right # NilPtr
    THEN LET rn == treeNode_GetRecurse_LeftOnly(t, t.tn[n].right, key)
         IN IF rn.ok THEN rn ELSE NotFound
    ELSE NotFound

RECURSIVE treeNode_GetRecurse(_, _, _)
treeNode_GetRecurse(t, n, key) ==
    IF KeyOf(t, n) = key
    THEN [node |-> t.tn[n].node, ok |-> TRUE]
    ELSE IF KeyOf(t, n) > key /\ t.tn[n].left # NilPtr
    THEN LET ln == treeNode_GetRecurse(t, t.tn[n].left, key)
         IN IF ln.ok THEN ln ELSE NotFound
    ELSE IF KeyOf(t, n) < key /\ t.tn[n].right # NilPtr
    THEN LET rn == treeNode_GetRecurse(t, t.tn[n].right, key)
         IN IF rn.ok THEN rn ELSE NotFound
    ELSE NotFound

\* ============================================================ LockingTree
NewLockingTree == [root |-> NilPtr, tn |-> <<>>, nd |-> <<>>]

\* the fast-fail with the lower bound excluded
FastFail_Strict(t, key) ==
    \/ t.root = NilPtr
    \/ key <= t.tn[t.root].loKey
    \/ key > t.tn[t.root].hiKey

FastFail(t, key) ==
    \/ t.root = NilPtr
    \/ key < t.tn[t.root].loKey
    \/ key > t.tn[t.root].hiKey

LockingTree_Get(t, key) ==
    IF FastFail(t, key) THEN NotFound ELSE treeNode_Get(t, t.root, key)

LockingTree_GetRecurse(t, key) ==
    IF FastFail(t, key) THEN NotFound ELSE treeNode_GetRecurse(t, t.root, key)

LockingTree_Count(t) == IF t.root = NilPtr THEN 0 ELSE t.tn[t.root].count

LockingTree_CountLeft(t) ==
    IF t.root = NilPtr THEN 0 ELSE t.tn[t.root].countLeft

LockingTree_CountRight(t) ==
    IF t.root = NilPtr THEN 0 ELSE t.tn[t.root].countRight

LockingTree_LowestKey(t) == IF t.root = NilPtr THEN 0 ELSE t.tn[t.root].loKey

LockingTree_HighestKey(t) == IF t.root = NilPtr THEN 0 ELSE t.tn[t.root].hiKey

\* DepthMax answering for the root level of a tree that has no root
LockingTree_DepthMax_RootLevel(t) ==
    IF t.root = NilPtr THEN 1 ELSE t.tn[t.root].depthMax

LockingTree_DepthMax(t) ==
    IF t.root = NilPtr THEN 0 ELSE t.tn[t.root].depthMax

LockingTree_DepthMaxLeft(t) ==
    IF t.root = NilPtr THEN 0 ELSE t.tn[t.root].depthMaxLeft

LockingTree_DepthMaxRight(t) ==
    IF t.root = NilPtr THEN 0 ELSE t.tn[t.root].depthMaxRight

\* LockingTree.put creating the root at depth 0, as New does
LockingTree_put_RootDepth0(t, key, value, recurse) ==
    IF t.root = NilPtr
    THEN [newTreeNode(t, key, value, 0, NodeSideRoot, NilPtr)
             EXCEPT !.root = Len(t.tn) + 1]
    ELSE IF recurse THEN treeNode_PutRecurse(t, t.root, key, value)
    ELSE treeNode_Put(t, t.root, key, value)

LockingTree_put(t, key, value, recurse) ==
    IF t.root = NilPtr
    THEN [newTreeNode(t, key, value, 1, NodeSideRoot, NilPtr)
             EXCEPT !.root = Len(t.tn) + 1]
    ELSE IF recurse THEN treeNode_PutRecurse(t, t.root, key, value)
    ELSE treeNode_Put(t, t.root, key, value)

RECURSIVE LockingTree_putKeys(_, _, _)
LockingTree_putKeys(t, keys, i) ==
    IF i > Len(keys) THEN t
    ELSE LockingTree_putKeys(LockingTree_put(t, keys[i], keys[i], FALSE),
                             keys, i + 1)

NewLockingTreeWithKeys(keys) == LockingTree_putKeys(NewLockingTree, keys, 1)

\* ================================================================ the state
TreeIds(t) == 1..Len(t.tn)
TreeKeys(t) == {KeyOf(t, n) : n \in TreeIds(t)}
NodeKeys(p) == {p[i].key : i \in 1..Len(p)}

Op(op, key, existed) == [op |-> op, key |-> key, existed |-> existed]

\* no SearchFunc call has been made: no goroutine, no lock held, nothing visited
NoTarget == -1
SearchIdle ==
    [pc |-> "idle", target |-> NoTarget, stop |-> 0, mu |-> <<>>,
     visited |-> <<>>, left |-> <<>>, right |-> <<>>]

\* every sync.Mutex of the heap p in its zero state
Unlocked(p) == [n \in 1..Len(p) |-> "none"]

\* the client goroutines of the per-node tree, none of them in a call
Walkers == {"w1", "w2"}
WalkerIdle == [op |-> "idle", rcv |-> NilPtr, key |-> 0, path |-> <<>>]

\* no DeepestNode call has been made: no goroutine, no result
DeepestIdle ==
    [pc |-> "idle", rcv |-> NilPtr, ln |-> NilPtr, rn |-> NilPtr,
     left |-> <<>>, right |-> <<>>]

\* the goroutines calling into the LockingTree, none of them in a call
Threads == {"t1", "t2"}
ThreadIdle == [op |-> "idle", key |-> 0, pc |-> "idle", src |-> NilPtr]

\* no call was made
NoCalls == [made |-> 0, offRoot |-> FALSE]

\* no list was handed over
NoCtor == [keys |-> <<>>, next |-> 1]

ConcIdle ==
    /\ wk = [w \in Walkers |-> WalkerIdle]
    /\ dn = DeepestIdle
    /\ calls = NoCalls
    /\ rw = [t \in Threads |-> ThreadIdle]

\* garbage collection: only the Node each treeNode points to stays on the heap
Collect(t) ==
    [t EXCEPT !.nd = [n \in 1..Len(t.tn) |-> t.nd[t.tn[n].node]],
              !.tn = [n \in 1..Len(t.tn) |-> [t.tn[n] EXCEPT !.node = n]]]

InitNode ==
    \E key \in Keys, value \in Values :
        /\ kind = "Node"
        /\ pn = <<Node_New(key, value)>>
        /\ lt = NewLockingTree
        /\ ret = NotFound
        /\ lastOp = Op("New", key, FALSE)
        /\ put = <<>>
        /\ itree = NewLockingTree /\ rtree = NewLockingTree
    /\ sf = SearchIdle
    /\ ctor = NoCtor /\ ConcIdle

InitLockingTree ==
    /\ kind = "LockingTree"
    /\ pn = <<>>
    /\ lt = NewLockingTree
    /\ ret = NotFound
    /\ lastOp = Op("NewLockingTree", 0, FALSE)
    /\ put = <<>>
    /\ itree = NewLockingTree /\ rtree = NewLockingTree
    /\ sf = SearchIdle
    /\ ctor = NoCtor /\ ConcIdle

Init == InitNode \/ InitLockingTree

\* (*Node).Put on the root of the per-node tree, run to completion
NodePut(key, value) ==
    /\ kind = "Node"
    /\ pn' = Node_Put(pn, 1, key, value)
    /\ lastOp' = Op("NodePut", key, key \in NodeKeys(pn))
    /\ UNCHANGED <<kind, lt, ret, put, itree, rtree, sf, conc>>

\* (*LockingTree).Put: the write lock is held from entry to return
Put(key, value) ==
    /\ kind = "LockingTree"
    /\ \E t \in {LockingTree_put(lt, key, value, FALSE)} : lt' = Collect(t)
    /\ lastOp' = Op("Put", key, key \in TreeKeys(lt))
    /\ put' = (key :> value) @@ put
    /\ ret' = NotFound
    /\ UNCHANGED <<kind, pn, itree, rtree, sf, conc>>

\* (*LockingTree).PutRecurse
PutRecurse(key, value) ==
    /\ kind = "LockingTree"
    /\ \E t \in {LockingTree_put(lt, key, value, TRUE)} : lt' = Collect(t)
    /\ lastOp' = Op("PutRecurse", key, key \in TreeKeys(lt))
    /\ put' = (key :> value) @@ put
    /\ ret' = NotFound
    /\ UNCHANGED <<kind, pn, itree, rtree, sf, conc>>

\* (*LockingTree).Get: the read lock is held from entry to return
Get(key) ==
    /\ kind = "LockingTree"
    /\ ret' = LockingTree_Get(lt, key)
    /\ lastOp' = Op("Get", key, key \in TreeKeys(lt))
    /\ UNCHANGED <<kind, pn, lt, put, itree, rtree, sf, conc>>

\* (*LockingTree).GetRecurse
GetRecurse(key) ==
    /\ kind = "LockingTree"
    /\ ret' = LockingTree_GetRecurse(lt, key)
    /\ lastOp' = Op("GetRecurse", key, key \in TreeKeys(lt))
    /\ UNCHANGED <<kind, pn, lt, put, itree, rtree, sf, conc>>

Next ==
    \/ \E key \in Keys, value \in Values : NodePut(key, value)
    \/ \E key \in Keys, value \in Values : Put(key, value)
    \/ \E key \in Keys, value \in Values : PutRecurse(key, value)
    \/ \E key \in Keys : Get(key)
    \/ \E key \in Keys : GetRecurse(key)

Spec == Init /\ [][Next]_vars

\* ------------------------------------------- Put against PutRecurse
\* Two empty LockingTrees receive the same sequence of (key, value) calls,
\* one through Put and one through PutRecurse.
InitEq ==
    /\ kind = "Twin"
    /\ pn = <<>>
    /\ lt = NewLockingTree
    /\ ret = NotFound
    /\ lastOp = Op("NewLockingTree", 0, FALSE)
    /\ put = <<>>
    /\ itree = NewLockingTree /\ rtree = NewLockingTree
    /\ sf = SearchIdle
    /\ ctor = NoCtor /\ ConcIdle

PutBoth(key, value) ==
    /\ kind = "Twin"
    /\ \E t \in {LockingTree_put(itree, key, value, FALSE)} : itree' = Collect(t)
    /\ \E t \in {LockingTree_put(rtree, key, value, TRUE)} : rtree' = Collect(t)
    /\ lastOp' = Op("PutBoth", key, key \in TreeKeys(itree))
    /\ put' = (key :> value) @@ put
    /\ UNCHANGED <<kind, pn, lt, ret, sf, conc>>

NextEq == \E key \in Keys, value \in Values : PutBoth(key, value)

SpecEq == InitEq /\ [][NextEq]_vars

\* ------------------------------------- a client that keeps what Get returned
\* ret is the *Node the client got from its last Get and still holds: the
\* garbage collector keeps that Node on the heap, after the treeNodes' own,
\* for as long as ret points to it.
Stale(t, r) == r.ok /\ \A n \in TreeIds(t) : t.tn[n].node # r.node

CollectHeld(t, r) ==
    LET live == [n \in 1..Len(t.tn) |-> t.nd[t.tn[n].node]]
    IN [t EXCEPT !.nd = IF Stale(t, r) THEN Append(live, t.nd[r.node])
                        ELSE live,
                 !.tn = [n \in 1..Len(t.tn) |-> [t.tn[n] EXCEPT !.node = n]]]

\* where the Node ret points to is after the collection
Held(t, r) ==
    IF ~r.ok THEN r
    ELSE IF Stale(t, r) THEN [r EXCEPT !.node = Len(t.tn) + 1]
    ELSE [r EXCEPT !.node = CHOOSE n \in TreeIds(t) : t.tn[n].node = r.node]

InitHold ==
    /\ kind = "Hold"
    /\ pn = <<>>
    /\ lt = NewLockingTree
    /\ ret = NotFound
    /\ lastOp = Op("NewLockingTree", 0, FALSE)
    /\ put = <<>>
    /\ itree = NewLockingTree /\ rtree = NewLockingTree
    /\ sf = SearchIdle
    /\ ctor = NoCtor /\ ConcIdle

\* n, ok := lt.Get(key), n replacing what the client held
HoldGet(key) ==
    /\ kind = "Hold"
    /\ \E r \in {LockingTree_Get(lt, key)} :
          /\ ret' = Held(lt, r)
          /\ lt' = CollectHeld(lt, r)
    /\ UNCHANGED <<kind, pn, lastOp, put, itree, rtree, sf, conc>>

HoldPut(key, value) ==
    /\ kind = "Hold"
    /\ \E t \in {LockingTree_put(lt, key, value, FALSE)} :
          /\ ret' = Held(t, ret)
          /\ lt' = CollectHeld(t, ret)
    /\ UNCHANGED <<kind, pn, lastOp, put, itree, rtree, sf, conc>>

HoldPutRecurse(key, value) ==
    /\ kind = "Hold"
    /\ \E t \in {LockingTree_put(lt, key, value, TRUE)} :
          /\ ret' = Held(t, ret)
          /\ lt' = CollectHeld(t, ret)
    /\ UNCHANGED <<kind, pn, lastOp, put, itree, rtree, sf, conc>>

NextHold ==
    \/ \E key \in Keys : HoldGet(key)
    \/ \E key \in Keys, value \in Values : HoldPut(key, value)
    \/ \E key \in Keys, value \in Values : HoldPutRecurse(key, value)

SpecHold == InitHold /\ [][NextHold]_vars

\* ------------------------------- trees built from a list of keys, traversed
\* The lists drawn are the ones without repetition, and the tests' own list:
\* in the per-node tree a repeated key changes nothing (put skips it, or
\* rewrites the same value), in the wrapper it is the overwrite that Put and
\* PutRecurse of a present key are.
KeyLists ==
    {TestKeys} \cup
    UNION {{l \in [1..n -> ListKeys] : \A i, j \in 1..n : l[i] = l[j] => i = j}
              : n \in 0..(MaxListKey + 1)}

\* the nodes such a tree can have, and the keys a visitor can look for
ListNodes == 1..Max(MaxListKey + 1, Len(TestKeys))
Targets ==
    ListKeys \cup {TestKeys[i] : i \in 1..Len(TestKeys)} \cup {NoTarget}

\* which source file the per-node tree is compiled from
IsP3 == kind = "part_003"

InitKeys ==
    \E keys \in KeyLists :
        /\ \/ kind = "gerbst.go" /\ pn = Node_NewWithKeys(keys)
                                 /\ lt = NewLockingTree
           \/ kind = "part_003" /\ pn = P3_NewWithKeys(keys)
                                /\ lt = NewLockingTree
           \/ kind = "locking.go" /\ pn = <<>>
                                  /\ lt = Collect(NewLockingTreeWithKeys(keys))
        /\ ret = NotFound
        /\ lastOp = Op("NewWithKeys", 0, FALSE)
        /\ put = <<>>
        /\ itree = NewLockingTree /\ rtree = NewLockingTree
        /\ sf = [SearchIdle EXCEPT !.mu = Unlocked(pn)]
        /\ ctor = [keys |-> keys, next |-> Len(keys) + 1]
        /\ ConcIdle

\* ---- (*Node).SearchFunc on the root, with the tests' visitor searchFN:
\*        func(n) bool { if n.Value() == target { return false }; return true }
\* Goroutines: "main" runs SearchFunc, "left" and "right" run the two forked
\* searchFunc calls.  A goroutine's stack is a sequence of searchFunc frames
\* [n, pc, locked]; only its last frame runs.
Frame(n) == [n |-> n, pc |-> "check", locked |-> FALSE]

\* a Value() that takes n.mu in gerbst.go as well
ValueBlocks_Locking(n) == sf.mu[n] # "none"

\* Value(): part_003 takes n.mu for the read, gerbst.go reads without a lock;
\* the call blocks while the lock is held, by whomever
ValueBlocks(n) == IsP3 /\ sf.mu[n] # "none"

\* one visitor call, as the log keeps it
Visit(g, n) ==
    [node |-> n, by |-> g, held |-> sf.mu[n] = g, stop |-> sf.stop]

\* the last frame of st returns: its deferred Unlock runs, and the caller goes
\* on to its right branch, or returns in turn
RECURSIVE Return(_, _)
Return(st, mu) ==
    LET f == st[Len(st)]
        mu1 == IF f.locked THEN [mu EXCEPT ![f.n] = "none"] ELSE mu
        rest == SubSeq(st, 1, Len(st) - 1)
    IN IF rest = <<>> THEN [stack |-> <<>>, mu |-> mu1]
       ELSE LET q == rest[Len(rest)]
            IN IF q.pc = "left" /\ pn[q.n].right # NilPtr
               THEN [stack |-> Append([rest EXCEPT ![Len(rest)].pc = "right"],
                                      Frame(pn[q.n].right)),
                     mu |-> mu1]
               ELSE Return(rest, mu1)

\* searchFunc returning after its left branch without looking at the right
Descend_LeftOnly(st, mu) ==
    LET f == st[Len(st)]
    IN IF pn[f.n].left # NilPtr
       THEN [stack |-> Append([st EXCEPT ![Len(st)].pc = "right"],
                              Frame(pn[f.n].left)),
             mu |-> mu]
       ELSE IF pn[f.n].right # NilPtr
       THEN [stack |-> Append([st EXCEPT ![Len(st)].pc = "right"],
                              Frame(pn[f.n].right)),
             mu |-> mu]
       ELSE Return(st, mu)

\* the last frame of st, holding its lock, goes on to its branches
Descend(st, mu) ==
    LET f == st[Len(st)]
    IN IF pn[f.n].left # NilPtr
       THEN [stack |-> Append([st EXCEPT ![Len(st)].pc = "left"],
                              Frame(pn[f.n].left)),
             mu |-> mu]
       ELSE IF pn[f.n].right # NilPtr
       THEN [stack |-> Append([st EXCEPT ![Len(st)].pc = "right"],
                              Frame(pn[f.n].right)),
             mu |-> mu]
       ELSE Return(st, mu)

Continue(n) == sf.target # pn[n].key

\* One call is made on each tree: neither call changes the tree, so a call
\* that follows another finds what a first call finds.
\* (*Node).DeepestNode on node n, run to its return
DeepestNode(n) ==
    /\ kind \in {"gerbst.go", "part_003"}
    /\ n <= Len(pn)
    /\ lastOp.op = "NewWithKeys"
    /\ ret' = [node |-> Node_DeepestNode(pn, n), ok |-> TRUE]
    /\ lastOp' = Op("DeepestNode", pn[n].key, TRUE)
    /\ UNCHANGED <<kind, pn, lt, put, itree, rtree, sf, conc>>

\* the call: gerbst.go locks the receiver first, part_003 visits it first
SearchFunc(target) ==
    /\ kind \in {"gerbst.go", "part_003"}
    /\ target \in NodeKeys(pn) \cup {NoTarget}
    /\ lastOp.op = "NewWithKeys"
    /\ sf' = [sf EXCEPT !.pc = IF IsP3 THEN "visit" ELSE "lock",
                        !.target = target]
    /\ lastOp' = Op("SearchFunc", 0, FALSE)
    /\ UNCHANGED <<kind, pn, lt, ret, put, itree, rtree, conc>>

\* SearchFunc without the go statement for the right branch
Fork_LeftOnly(s) ==
    [s EXCEPT !.pc = "wait",
              !.left = IF pn[1].left = NilPtr THEN <<>>
                       ELSE <<Frame(pn[1].left)>>,
              !.right = <<>>]

\* the two go statements after the receiver is visited and locked
Fork(s) ==
    [s EXCEPT !.pc = "wait",
              !.left = IF pn[1].left = NilPtr THEN <<>>
                       ELSE <<Frame(pn[1].left)>>,
              !.right = IF pn[1].right = NilPtr THEN <<>>
                        ELSE <<Frame(pn[1].right)>>]

MainLock ==
    /\ sf.pc = "lock"
    /\ sf.mu[1] = "none"
    /\ LET s == [sf EXCEPT !.mu[1] = "main"]
       IN sf' = IF IsP3 THEN Fork(s) ELSE [s EXCEPT !.pc = "visit"]
    /\ UNCHANGED <<kind, pn, lt, ret, lastOp, put, itree, rtree, conc>>

MainVisit ==
    /\ sf.pc = "visit"
    /\ ~ValueBlocks(1)
    /\ LET s == [sf EXCEPT !.visited = Append(@, Visit("main", 1))]
       IN sf' = IF ~Continue(1)
                THEN [s EXCEPT !.pc = "done", !.mu[1] = "none"]
                ELSE IF IsP3 THEN [s EXCEPT !.pc = "lock"]
                ELSE Fork(s)
    /\ UNCHANGED <<kind, pn, lt, ret, lastOp, put, itree, rtree, conc>>

\* SearchFunc returning without wg.Wait()
MainJoin_NoWait ==
    /\ sf.pc = "wait"
    /\ sf' = [sf EXCEPT !.pc = "done", !.mu[1] = "none"]
    /\ UNCHANGED <<kind, pn, lt, ret, lastOp, put, itree, rtree, conc>>

\* wg.Wait() returns, the deferred Unlock runs, SearchFunc returns
MainJoin ==
    /\ sf.pc = "wait"
    /\ sf.left = <<>> /\ sf.right = <<>>
    /\ sf' = [sf EXCEPT !.pc = "done", !.mu[1] = "none"]
    /\ UNCHANGED <<kind, pn, lt, ret, lastOp, put, itree, rtree, conc>>

Goroutines == {"left", "right"}
Top(g) == sf[g][Len(sf[g])]
Running(g) == sf.pc = "wait" /\ sf[g] # <<>>

\* goroutine g moves on with stack and locks r
Resume(s, g, r) == [s EXCEPT ![g] = r.stack, !.mu = r.mu]
SetPc(s, g, pc) == [s EXCEPT ![g][Len(sf[g])].pc = pc]

\* searchFunc going on whatever the stop flag says
TaskCheck_NoStop(g) ==
    /\ Running(g) /\ Top(g).pc = "check"
    /\ sf' = SetPc(sf, g, IF IsP3 THEN "visit" ELSE "lock")
    /\ UNCHANGED <<kind, pn, lt, ret, lastOp, put, itree, rtree, conc>>

\* if 1 == atomic.LoadUint32(stop) { return }
TaskCheck(g) ==
    /\ Running(g) /\ Top(g).pc = "check"
    /\ sf' = IF sf.stop = 1 THEN Resume(sf, g, Return(sf[g], sf.mu))
             ELSE SetPc(sf, g, IF IsP3 THEN "visit" ELSE "lock")
    /\ UNCHANGED <<kind, pn, lt, ret, lastOp, put, itree, rtree, conc>>

\* n.mu.Lock(); defer n.mu.Unlock()
TaskLock(g) ==
    /\ Running(g) /\ Top(g).pc = "lock"
    /\ sf.mu[Top(g).n] = "none"
    /\ LET n == Top(g).n
           st == [sf[g] EXCEPT ![Len(sf[g])].locked = TRUE]
           mu == [sf.mu EXCEPT ![n] = g]
       IN sf' = IF IsP3 THEN Resume(sf, g, Descend(st, mu))
                ELSE Resume(sf, g, [stack |-> [st EXCEPT ![Len(st)].pc = "visit"],
                                    mu |-> mu])
    /\ UNCHANGED <<kind, pn, lt, ret, lastOp, put, itree, rtree, conc>>

\* fn(n)
TaskVisit(g) ==
    /\ Running(g) /\ Top(g).pc = "visit"
    /\ ~ValueBlocks(Top(g).n)
    /\ LET n == Top(g).n
           s == [sf EXCEPT !.visited = Append(@, Visit(g, n))]
       IN sf' = IF ~Continue(n) THEN SetPc(s, g, "store")
                ELSE IF IsP3 THEN SetPc(s, g, "lock")
                ELSE Resume(s, g, Descend(sf[g], sf.mu))
    /\ UNCHANGED <<kind, pn, lt, ret, lastOp, put, itree, rtree, conc>>

\* atomic.StoreUint32(stop, 1); return
TaskStore(g) ==
    /\ Running(g) /\ Top(g).pc = "store"
    /\ sf' = Resume([sf EXCEPT !.stop = 1], g, Return(sf[g], sf.mu))
    /\ UNCHANGED <<kind, pn, lt, ret, lastOp, put, itree, rtree, conc>>

Main == MainLock \/ MainVisit \/ MainJoin
Task(g) == TaskCheck(g) \/ TaskLock(g) \/ TaskVisit(g) \/ TaskStore(g)

NextKeys ==
    \/ \E n \in ListNodes : DeepestNode(n)
    \/ \E target \in Targets : SearchFunc(target)
    \/ MainLock
    \/ MainVisit
    \/ MainJoin
    \/ \E g \in Goroutines : TaskCheck(g)
    \/ \E g \in Goroutines : TaskLock(g)
    \/ \E g \in Goroutines : TaskVisit(g)
    \/ \E g \in Goroutines : TaskStore(g)

SpecKeys == InitKeys /\ [][NextKeys]_vars

\* the Go scheduler runs every goroutine that can run
SpecKeysFair ==
    SpecKeys /\ WF_vars(Main) /\ \A g \in Goroutines : WF_vars(Task(g))


\* ------------------------------ the constructors, key by key
\* NewWithKeys and NewLockingTreeWithKeys with any list, repetitions
\* included: the state holds the list and the index the range loop is at.
NewLists == UNION {[1..n -> ListKeys] : n \in 0..(MaxListKey + 1)}

\* the call has come to its range loop: New(keys[0], nil), or New(0, nil) and
\* a loop with nothing to do, or NewLockingTree()
InitNew ==
    \E keys \in NewLists :
        /\ \/ /\ kind = "gerbst.go"
              /\ pn = <<Node_New(IF Len(keys) = 0 THEN 0 ELSE keys[1],
                                 NilValue)>>
              /\ lt = NewLockingTree
              /\ ctor = [keys |-> keys, next |-> 2]
           \/ /\ kind = "part_003"
              /\ pn = <<P3_New(IF Len(keys) = 0 THEN 0 ELSE keys[1],
                               NilValue)>>
              /\ lt = NewLockingTree
              /\ ctor = [keys |-> keys, next |-> 2]
           \/ /\ kind = "locking.go"
              /\ pn = <<>>
              /\ lt = NewLockingTree
              /\ ctor = [keys |-> keys, next |-> 1]
        /\ ret = NotFound
        /\ lastOp = Op("NewWithKeys", 0, FALSE)
        /\ put = <<>>
        /\ itree = NewLockingTree /\ rtree = NewLockingTree
        /\ sf = SearchIdle
        /\ ConcIdle

\* the loop is over, the constructor returns
Built == ctor.next > Len(ctor.keys)

\* a loop body that hands put no value
NewWithKeysPut_NoValue ==
    /\ kind \in {"gerbst.go", "part_003"}
    /\ ~Built
    /\ LET k == ctor.keys[ctor.next]
       IN pn' = IF IsP3 THEN P3_put(pn, 1, k, NilValue)
                ELSE Node_put(pn, 1, k, NilValue)
    /\ ctor' = [ctor EXCEPT !.next = @ + 1]
    /\ UNCHANGED <<kind, lt, ret, lastOp, put, itree, rtree, sf, wk, dn,
                   calls, rw>>

\* for _, k := range keys[1:] { n.put(k, k) }, one turn
NewWithKeysPut ==
    /\ kind \in {"gerbst.go", "part_003"}
    /\ ~Built
    /\ LET k == ctor.keys[ctor.next]
       IN pn' = IF IsP3 THEN P3_put(pn, 1, k, k) ELSE Node_put(pn, 1, k, k)
    /\ ctor' = [ctor EXCEPT !.next = @ + 1]
    /\ UNCHANGED <<kind, lt, ret, lastOp, put, itree, rtree, sf, wk, dn,
                   calls, rw>>

\* for _, k := range keys { lt.Put(k, k) }, one turn
NewLockingTreeWithKeysPut ==
    /\ kind = "locking.go"
    /\ ~Built
    /\ LET k == ctor.keys[ctor.next]
       IN \E t \in {LockingTree_put(lt, k, k, FALSE)} : lt' = Collect(t)
    /\ ctor' = [ctor EXCEPT !.next = @ + 1]
    /\ UNCHANGED <<kind, pn, ret, lastOp, put, itree, rtree, sf, wk, dn,
                   calls, rw>>

NextNew == NewWithKeysPut \/ NewLockingTreeWithKeysPut

SpecNew == InitNew /\ [][NextNew]_vars

\* ------------------------------ concurrent calls on one per-node tree
\* Client goroutines call Put, Get, Left and Right on any node of the tree
\* (a node other than the root is what Left() and Right() hand out), while
\* one SearchFunc call on the root and one DeepestNode call may be running.
\* Every step is one n.mu.Lock() together with what the goroutine then does
\* under that lock up to its next Lock(); deferred Unlocks run when the
\* call returns.  A client passes a nil value, so a node's value is its key.
\* MaxCalls bounds the calls made in one behaviour; as many calls run at
\* one time as there are client goroutines.
MaxCalls == 3
MaxFlight == Cardinality(Walkers)

\* the trees the calls start from: NewWithKeys of a list without repetition
ConcLists ==
    UNION {{l \in [1..n -> Keys] : \A i, j \in 1..n : l[i] = l[j] => i = j}
              : n \in 1..MaxKey}
ConcNodes == 1..(MaxKey + 1)

InitConc ==
    \E keys \in ConcLists :
        /\ \/ kind = "gerbst.go" /\ pn = Node_NewWithKeys(keys)
           \/ kind = "part_003" /\ pn = P3_NewWithKeys(keys)
        /\ lt = NewLockingTree
        /\ ret = NotFound
        /\ lastOp = Op("NewWithKeys", 0, FALSE)
        /\ put = <<>>
        /\ itree = NewLockingTree /\ rtree = NewLockingTree
        /\ sf = [SearchIdle EXCEPT !.mu = Unlocked(pn)]
        /\ ctor = [keys |-> keys, next |-> Len(keys) + 1]
        /\ ConcIdle

\* the calls made so far
Started ==
    calls.made + (IF sf.pc = "idle" THEN 0 ELSE 1)
               + (IF dn.pc = "idle" THEN 0 ELSE 1)

\* the calls that have not returned
InFlight ==
    Cardinality({w \in Walkers : wk[w].op # "idle"})
        + (IF sf.pc \in {"idle", "done"} THEN 0 ELSE 1)
        + (IF dn.pc \in {"idle", "done"} THEN 0 ELSE 1)

MayCall == Started < MaxCalls /\ InFlight < MaxFlight

\* goroutine w calls op on node rcv; its first Lock() is still to come
Enter(w, op, rcv, key) ==
    /\ wk[w].op = "idle"
    /\ MayCall
    /\ rcv <= Len(pn)
    /\ wk' = [wk EXCEPT ![w] = [op |-> op, rcv |-> rcv, key |-> key,
                                path |-> <<rcv>>]]
    /\ calls' = [made |-> calls.made + 1,
                  offRoot |-> calls.offRoot \/ (op = "Put" /\ rcv # 1)]
    /\ UNCHANGED <<kind, pn, lt, ret, lastOp, put, itree, rtree, sf, ctor,
                   dn, rw>>

CallPut(w, rcv, key) == Enter(w, "Put", rcv, key)
\* Get is part_003's; gerbst.go has none
CallGet(w, rcv, key) == IsP3 /\ Enter(w, "Get", rcv, key)
CallLeft(w, rcv) == Enter(w, "Left", rcv, 0)
CallRight(w, rcv) == Enter(w, "Right", rcv, 0)

\* a return that runs no deferred Unlock
Leave_NoUnlock(w, mu) == mu

\* the call of w returns: every deferred Unlock on its path runs
Leave(w, mu) ==
    [n \in 1..Len(mu) |-> IF mu[n] = w THEN "none" ELSE mu[n]]

\* the child put and Get go on to from node n, NilPtr where they stop at n
Onward(n, key) ==
    IF pn[n].key > key THEN pn[n].left
    ELSE IF pn[n].key < key THEN pn[n].right
    ELSE NilPtr

\* put, Get, Left and Right going on without n.mu.Lock()
WalkLock_NoLock(w) ==
    /\ wk[w].op # "idle"
    /\ LET c == wk[w]
           n == c.path[Len(c.path)]
           next == Onward(n, c.key)
       IN IF c.op \in {"Put", "Get"} /\ next # NilPtr
          THEN /\ wk' = [wk EXCEPT ![w].path = Append(@, next)]
               /\ sf' = [sf EXCEPT !.mu[n] = w]
               /\ pn' = pn
          ELSE /\ wk' = [wk EXCEPT ![w] = WalkerIdle]
               /\ pn' = IF c.op # "Put" THEN pn
                        ELSE IF IsP3 THEN P3_put(pn, n, c.key, c.key)
                        ELSE Node_put(pn, n, c.key, c.key)
               /\ sf' = [sf EXCEPT !.mu =
                            IF Len(pn') > Len(pn)
                            THEN Append(Leave(w, sf.mu), "none")
                            ELSE Leave(w, sf.mu)]
    /\ UNCHANGED <<kind, lt, ret, lastOp, put, itree, rtree, ctor, dn, calls,
                   rw>>

\* n.mu.Lock() by w on the last node of its path, and the body under it
WalkLock(w) ==
    /\ wk[w].op # "idle"
    /\ LET c == wk[w]
           n == c.path[Len(c.path)]
           next == Onward(n, c.key)
       IN /\ sf.mu[n] = "none"
          /\ IF c.op \in {"Put", "Get"} /\ next # NilPtr
             THEN /\ wk' = [wk EXCEPT ![w].path = Append(@, next)]
                  /\ sf' = [sf EXCEPT !.mu[n] = w]
                  /\ pn' = pn
             ELSE /\ wk' = [wk EXCEPT ![w] = WalkerIdle]
                  /\ pn' = IF c.op # "Put" THEN pn
                           ELSE IF IsP3 THEN P3_put(pn, n, c.key, c.key)
                           ELSE Node_put(pn, n, c.key, c.key)
                  /\ sf' = [sf EXCEPT !.mu =
                               IF Len(pn') > Len(pn)
                               THEN Append(Leave(w, sf.mu), "none")
                               ELSE Leave(w, sf.mu)]
    /\ UNCHANGED <<kind, lt, ret, lastOp, put, itree, rtree, ctor, dn, calls,
                   rw>>

\* ---- (*Node).DeepestNode on node rcv, goroutine by goroutine: "main" runs
\* DeepestNode, "left" and "right" run the forked deepestNode calls.  A
\* deepestNode frame is [n, pc, ln]: pc says which branch it is waiting for.
DeepFrame(n) == [n |-> n, pc |-> "lock", ln |-> NilPtr]
DeepName(g) == IF g = "left" THEN "dn.left" ELSE "dn.right"

\* the last frame of st returns node v: its deferred Unlock runs, its caller
\* keeps v and goes on to its right branch or returns the leafiest in turn
RECURSIVE DeepReturn(_, _, _)
DeepReturn(st, mu, v) ==
    LET f == st[Len(st)]
        mu1 == [mu EXCEPT ![f.n] = "none"]
        rest == SubSeq(st, 1, Len(st) - 1)
    IN IF rest = <<>> THEN [stack |-> <<>>, mu |-> mu1, val |-> v]
       ELSE LET q == rest[Len(rest)]
            IN IF q.pc = "left" /\ pn[q.n].right # NilPtr
               THEN [stack |-> Append([rest EXCEPT ![Len(rest)].pc = "right",
                                                   ![Len(rest)].ln = v],
                                      DeepFrame(pn[q.n].right)),
                     mu |-> mu1, val |-> NilPtr]
               ELSE IF q.pc = "left"
               THEN DeepReturn(rest, mu1, Leafiest(pn, v, NilPtr))
               ELSE DeepReturn(rest, mu1, Leafiest(pn, q.ln, v))

CallDeepestNode(n) ==
    /\ dn.pc = "idle"
    /\ MayCall
    /\ n <= Len(pn)
    /\ dn' = [dn EXCEPT !.pc = "lock", !.rcv = n]
    /\ UNCHANGED <<kind, pn, lt, ret, lastOp, put, itree, rtree, sf, ctor,
                   wk, calls, rw>>

\* n.mu.Lock(); a leaf returns itself, any other node forks
DeepestLock ==
    /\ dn.pc = "lock"
    /\ sf.mu[dn.rcv] = "none"
    /\ LET n == dn.rcv
       IN IF pn[n].left = NilPtr /\ pn[n].right = NilPtr
          THEN /\ dn' = [dn EXCEPT !.pc = "done"]
               /\ ret' = [node |-> n, ok |-> TRUE]
               /\ sf' = sf
          ELSE /\ dn' = [dn EXCEPT
                           !.pc = "wait",
                           !.left = IF pn[n].left = NilPtr THEN <<>>
                                    ELSE <<DeepFrame(pn[n].left)>>,
                           !.right = IF pn[n].right = NilPtr THEN <<>>
                                     ELSE <<DeepFrame(pn[n].right)>>]
               /\ ret' = ret
               /\ sf' = [sf EXCEPT !.mu[n] = "dn.main"]
    /\ UNCHANGED <<kind, pn, lt, lastOp, put, itree, rtree, ctor, wk, calls,
                   rw>>

\* a forked goroutine: the Lock() of its last frame and the body under it
DeepestTask(g) ==
    /\ dn.pc = "wait" /\ dn[g] # <<>>
    /\ LET st == dn[g]
           n == st[Len(st)].n
           mu == [sf.mu EXCEPT ![n] = DeepName(g)]
           r == IF pn[n].left = NilPtr /\ pn[n].right = NilPtr
                THEN DeepReturn(st, mu, n)
                ELSE IF pn[n].left # NilPtr
                THEN [stack |-> Append([st EXCEPT ![Len(st)].pc = "left"],
                                       DeepFrame(pn[n].left)),
                      mu |-> mu, val |-> NilPtr]
                ELSE [stack |-> Append([st EXCEPT ![Len(st)].pc = "right"],
                                       DeepFrame(pn[n].right)),
                      mu |-> mu, val |-> NilPtr]
       IN /\ sf.mu[n] = "none"
          /\ dn' = IF g = "left"
                   THEN [dn EXCEPT !.left = r.stack, !.ln = r.val]
                   ELSE [dn EXCEPT !.right = r.stack, !.rn = r.val]
          /\ sf' = [sf EXCEPT !.mu = r.mu]
    /\ UNCHANGED <<kind, pn, lt, ret, lastOp, put, itree, rtree, ctor, wk,
                   calls, rw>>

\* wg.Wait() returns, the leafiest is chosen, the deferred Unlock runs
DeepestJoin ==
    /\ dn.pc = "wait"
    /\ dn.left = <<>> /\ dn.right = <<>>
    /\ dn' = [dn EXCEPT !.pc = "done"]
    /\ ret' = [node |-> Leafiest(pn, dn.ln, dn.rn), ok |-> TRUE]
    /\ sf' = [sf EXCEPT !.mu[dn.rcv] = "none"]
    /\ UNCHANGED <<kind, pn, lt, lastOp, put, itree, rtree, ctor, wk, calls,
                   rw>>

CallSearchFunc(target) == MayCall /\ SearchFunc(target)

Deepest == DeepestLock \/ DeepestJoin

NextConc ==
    \/ \E w \in Walkers, rcv \in ConcNodes, key \in Keys : CallPut(w, rcv, key)
    \/ \E w \in Walkers, rcv \in ConcNodes, key \in Keys : CallGet(w, rcv, key)
    \/ \E w \in Walkers, rcv \in ConcNodes : CallLeft(w, rcv)
    \/ \E w \in Walkers, rcv \in ConcNodes : CallRight(w, rcv)
    \/ \E w \in Walkers : WalkLock(w)
    \/ \E target \in Keys \cup {NoTarget} : CallSearchFunc(target)
    \/ MainLock
    \/ MainVisit
    \/ MainJoin
    \/ \E g \in Goroutines : TaskCheck(g)
    \/ \E g \in Goroutines : TaskLock(g)
    \/ \E g \in Goroutines : TaskVisit(g)
    \/ \E g \in Goroutines : TaskStore(g)
    \/ \E n \in ConcNodes : CallDeepestNode(n)
    \/ DeepestLock
    \/ \E g \in Goroutines : DeepestTask(g)
    \/ DeepestJoin

SpecConc == InitConc /\ [][NextConc]_vars

\* the Go scheduler runs every goroutine that can run
SpecConcFair ==
    /\ SpecConc
    /\ WF_vars(Main) /\ \A g \in Goroutines : WF_vars(Task(g))
    /\ WF_vars(Deepest) /\ \A g \in Goroutines : WF_vars(DeepestTask(g))
    /\ \A w \in Walkers : WF_vars(WalkLock(w))


\* ------------------------------ concurrent calls on one LockingTree
\* Goroutines call Put, PutRecurse, Get and GetRecurse on one LockingTree.
\* pc "lock": the call waits in mu.Lock() / mu.RLock(); "meta": a writer
\* holds mu and has come to its updateMeta call, or to its return where
\* there is none; "in": a reader holds the read lock.  Every Put stores the
\* value 1.
Writes == {"Put", "PutRecurse"}
Reads == {"Get", "GetRecurse"}
WLocked == \E t \in Threads : rw[t].pc = "meta"
RLocked == \E t \in Threads : rw[t].pc = "in"

InitRW ==
    /\ kind = "RWMutex"
    /\ pn = <<>>
    /\ lt = NewLockingTree
    /\ ret = NotFound
    /\ lastOp = Op("NewLockingTree", 0, FALSE)
    /\ put = <<>>
    /\ itree = NewLockingTree /\ rtree = NewLockingTree
    /\ sf = SearchIdle
    /\ ctor = NoCtor /\ ConcIdle

\* goroutine t calls op; it has not got the mutex yet
Invoke(t, op, key) ==
    /\ kind = "RWMutex"
    /\ rw[t].op = "idle"
    /\ rw' = [rw EXCEPT ![t] = [op |-> op, key |-> key, pc |-> "lock",
                                src |-> NilPtr]]
    /\ UNCHANGED <<kind, pn, lt, ret, lastOp, put, itree, rtree, sf, ctor, wk,
                   dn, calls>>

InvokePut(t, key) == Invoke(t, "Put", key)
InvokePutRecurse(t, key) == Invoke(t, "PutRecurse", key)
InvokeGet(t, key) == Invoke(t, "Get", key)
InvokeGetRecurse(t, key) == Invoke(t, "GetRecurse", key)

\* the tree as put leaves it where it calls updateMeta: the new treeNode is
\* linked in and no other treeNode's metadata is touched yet
PutToMeta(t, key, value, recurse) ==
    LET fin == LockingTree_put(t, key, value, recurse)
    IN [fin EXCEPT !.tn =
          [n \in 1..Len(fin.tn) |->
              IF n <= Len(t.tn)
              THEN [t.tn[n] EXCEPT !.left = fin.tn[n].left,
                                   !.right = fin.tn[n].right,
                                   !.node = fin.tn[n].node]
              ELSE fin.tn[n]]]

\* n.mu.Lock() returns, and put runs up to its updateMeta call
WriteLock(t) ==
    /\ rw[t].op \in Writes /\ rw[t].pc = "lock"
    /\ ~WLocked /\ ~RLocked
    /\ lt' = PutToMeta(lt, rw[t].key, 1, rw[t].op = "PutRecurse")
    /\ rw' = [rw EXCEPT ![t].pc = "meta",
                        ![t].src = IF lt.root # NilPtr
                                      /\ Len(lt'.tn) > Len(lt.tn)
                                   THEN Len(lt'.tn) ELSE NilPtr]
    /\ UNCHANGED <<kind, pn, ret, lastOp, put, itree, rtree, sf, ctor, wk, dn,
                   calls>>

\* updateMeta(src) where put calls it, the return, the deferred Unlock
WriteUnlock(t) ==
    /\ rw[t].pc = "meta"
    /\ lt' = Collect(IF rw[t].src = NilPtr THEN lt
                     ELSE updateMeta(lt, rw[t].src))
    /\ rw' = [rw EXCEPT ![t] = ThreadIdle]
    /\ lastOp' = Op(rw[t].op, rw[t].key, rw[t].key \in DOMAIN put)
    /\ put' = (rw[t].key :> 1) @@ put
    /\ UNCHANGED <<kind, pn, ret, itree, rtree, sf, ctor, wk, dn, calls>>

\* n.mu.RLock() returns
ReadLock(t) ==
    /\ rw[t].op \in Reads /\ rw[t].pc = "lock"
    /\ ~WLocked
    /\ rw' = [rw EXCEPT ![t].pc = "in"]
    /\ UNCHANGED <<kind, pn, lt, ret, lastOp, put, itree, rtree, sf, ctor, wk,
                   dn, calls>>

\* the lookup, the return, the deferred RUnlock
ReadUnlock(t) ==
    /\ rw[t].pc = "in"
    /\ ret' = IF rw[t].op = "Get" THEN LockingTree_Get(lt, rw[t].key)
              ELSE LockingTree_GetRecurse(lt, rw[t].key)
    /\ lastOp' = Op(rw[t].op, rw[t].key, rw[t].key \in TreeKeys(lt))
    /\ rw' = [rw EXCEPT ![t] = ThreadIdle]
    /\ UNCHANGED <<kind, pn, lt, put, itree, rtree, sf, ctor, wk, dn, calls>>

NextRW ==
    \/ \E t \in Threads, key \in Keys : InvokePut(t, key)
    \/ \E t \in Threads, key \in Keys : InvokePutRecurse(t, key)
    \/ \E t \in Threads, key \in Keys : InvokeGet(t, key)
    \/ \E t \in Threads, key \in Keys : InvokeGetRecurse(t, key)
    \/ \E t \in Threads : WriteLock(t)
    \/ \E t \in Threads : WriteUnlock(t)
    \/ \E t \in Threads : ReadLock(t)
    \/ \E t \in Threads : ReadUnlock(t)

SpecRW == InitRW /\ [][NextRW]_vars


\* ------------------------------ SearchFunc beside a writer
\* SearchFunc on the root, with a visitor that always continues, while
\* client goroutines call Put on the root; one key more than in Keys, which
\* is what it takes to have a root with a right child and two new keys, one
\* for each side.
SnapKeys == 0..(MaxKey + 1)
SnapLists ==
    UNION {{l \in [1..n -> SnapKeys] : \A i, j \in 1..n : l[i] = l[j] => i = j}
              : n \in 1..MaxKey}

InitSnap ==
    \E keys \in SnapLists :
        /\ \/ kind = "gerbst.go" /\ pn = Node_NewWithKeys(keys)
           \/ kind = "part_003" /\ pn = P3_NewWithKeys(keys)
        /\ lt = NewLockingTree
        /\ ret = NotFound
        /\ lastOp = Op("NewWithKeys", 0, FALSE)
        /\ put = <<>>
        /\ itree = NewLockingTree /\ rtree = NewLockingTree
        /\ sf = [SearchIdle EXCEPT !.mu = Unlocked(pn)]
        /\ ctor = [keys |-> keys, next |-> Len(keys) + 1]
        /\ ConcIdle

NextSnap ==
    \/ \E w \in Walkers, key \in SnapKeys : CallPut(w, 1, key)
    \/ \E w \in Walkers : WalkLock(w)
    \/ CallSearchFunc(NoTarget)
    \/ MainLock
    \/ MainVisit
    \/ MainJoin
    \/ \E g \in Goroutines : TaskCheck(g)
    \/ \E g \in Goroutines : TaskLock(g)
    \/ \E g \in Goroutines : TaskVisit(g)

SpecSnap == InitSnap /\ [][NextSnap]_vars


\* ================================================================ properties
RECURSIVE SubtreeT(_, _)
SubtreeT(t, n) ==
    IF n = NilPtr THEN {}
    ELSE {n} \cup SubtreeT(t, t.tn[n].left) \cup SubtreeT(t, t.tn[n].right)

RECURSIVE SubtreeN(_, _)
SubtreeN(p, n) ==
    IF n = NilPtr THEN {}
    ELSE {n} \cup SubtreeN(p, p[n].left) \cup SubtreeN(p, p[n].right)

OrderedT(t) ==
    \A n \in TreeIds(t) :
        /\ \A m \in SubtreeT(t, t.tn[n].left) : KeyOf(t, m) < KeyOf(t, n)
        /\ \A m \in SubtreeT(t, t.tn[n].right) : KeyOf(t, m) > KeyOf(t, n)

OrderedN(p) ==
    \A n \in 1..Len(p) :
        /\ \A m \in SubtreeN(p, p[n].left) : p[m].key < p[n].key
        /\ \A m \in SubtreeN(p, p[n].right) : p[m].key > p[n].key

IsPut == lastOp.op \in {"Put", "PutRecurse"}

\* C1: after any sequence of Put/PutRecurse calls on the root, in the per-node
\* tree and in the wrapper alike, every key in a node's left subtree is
\* strictly less than the node's key and every key in its right subtree is
\* strictly greater; every node hangs below the root.
C1_BSTOrdering ==
    /\ OrderedN(pn)
    /\ OrderedT(lt)
    /\ kind = "Node" => SubtreeN(pn, 1) = 1..Len(pn)
    /\ kind = "LockingTree" => SubtreeT(lt, lt.root) = TreeIds(lt)

\* a wrapper tree of three levels that bends (a left child with a right child)
\* built by a Put that attached the grandchild
C1_Witness ==
    /\ kind = "LockingTree" /\ IsPut /\ ~lastOp.existed
    /\ \E n \in TreeIds(lt) :
          /\ lt.tn[n].left # NilPtr
          /\ lt.tn[lt.tn[n].left].right # NilPtr
          /\ KeyOf(lt, lt.tn[lt.tn[n].left].right) = lastOp.key

\* the half of C2 about the wrapper: a step that is a Put or PutRecurse of
\* (key, value) ends in a tree where both lookups find key holding value
PutStoresValueLockingTree(key, value) ==
    (Put(key, value) \/ PutRecurse(key, value)) =>
        LET g == LockingTree_Get(lt', key)
            gr == LockingTree_GetRecurse(lt', key)
        IN /\ g.ok /\ lt'.nd[g.node].value = value
           /\ gr.ok /\ lt'.nd[gr.node].value = value

\* the half of C2 about the per-node tree
PutStoresValueNode(key, value) ==
    NodePut(key, value) =>
        \E i \in 1..Len(pn') : pn'[i].key = key /\ pn'[i].value = value

\* C2: after Put(k, v) with a non-nil v the node with key k holds v, whether k
\* was new or present, for Node.Put and for LockingTree.Put/PutRecurse, and
\* a following Get(k)/GetRecurse(k) finds it with that value.
C2_PutStoresValue ==
    [][\A key \in Keys, value \in Values \ {NilValue} :
          /\ PutStoresValueNode(key, value)
          /\ PutStoresValueLockingTree(key, value)]_vars

\* the wrapper's half of C2 alone
C2_LockingTreeHalf ==
    [][\A key \in Keys, value \in Values \ {NilValue} :
          PutStoresValueLockingTree(key, value)]_vars

\* a treeNode without the pointer to its exported Node: links and metadata
Shape(r) == [r EXCEPT !.node = NilPtr]

\* C3: in the wrapper a Put or PutRecurse of a key already present creates no
\* tree node and leaves every node's left/right/parent links and count,
\* countLeft, countRight, depthMax, depthMaxLeft, depthMaxRight, loKey and
\* hiKey as they were.
C3_OverwriteKeepsShape ==
    [][(kind = "LockingTree" /\ lastOp'.op \in {"Put", "PutRecurse"}
            /\ lastOp'.existed)
        => /\ lt'.root = lt.root
           /\ Len(lt'.tn) = Len(lt.tn)
           /\ \A n \in 1..Len(lt.tn) : Shape(lt'.tn[n]) = Shape(lt.tn[n])]_vars

\* the key of an inner node below the root has just been put again
C3_Witness ==
    /\ kind = "LockingTree" /\ IsPut /\ lastOp.existed
    /\ \E n \in TreeIds(lt) :
          /\ KeyOf(lt, n) = lastOp.key
          /\ lt.tn[n].parent # NilPtr
          /\ lt.tn[n].left # NilPtr \/ lt.tn[n].right # NilPtr

SidesMatch(t) ==
    \A n \in TreeIds(t) :
        /\ (SideOf(t, n) = NodeSideRoot) <=> (n = t.root)
        /\ t.tn[n].left # NilPtr => SideOf(t, t.tn[n].left) = NodeSideLeft
        /\ t.tn[n].right # NilPtr => SideOf(t, t.tn[n].right) = NodeSideRight

\* C4: a node's key, depth and side never change once it exists; its value
\* changes only through a Put/PutRecurse of its own key; after every call each
\* non-root node has the side of the slot it occupies and only the root has
\* side ROOT.
C4_ImmutableFields ==
    [][/\ \A n \in 1..Len(lt.tn) :
             /\ KeyOf(lt', n) = KeyOf(lt, n)
             /\ DepthOf(lt', n) = DepthOf(lt, n)
             /\ SideOf(lt', n) = SideOf(lt, n)
             /\ ValueOf(lt', n) # ValueOf(lt, n) =>
                  /\ lastOp'.op \in {"Put", "PutRecurse"}
                  /\ lastOp'.key = KeyOf(lt, n)
       /\ \A i \in 1..Len(pn) :
             /\ pn'[i].key = pn[i].key
             /\ pn'[i].depth = pn[i].depth
             /\ pn'[i].side = pn[i].side
       /\ SidesMatch(lt')]_vars

\* C5: LockingTree.Get(k) reports found exactly for the keys some earlier
\* Put/PutRecurse inserted, and then returns the node with key k carrying the
\* value of the most recent Put of k; the fast-fail on the root's bounds never
\* hides a key that is in the tree.
C5_GetFindsInserted ==
    kind = "LockingTree" =>
        /\ \A k \in Keys :
              LET r == LockingTree_Get(lt, k)
              IN /\ r.ok <=> k \in DOMAIN put
                 /\ r.ok => /\ lt.nd[r.node].key = k
                            /\ lt.nd[r.node].value = put[k]
                            /\ \E n \in TreeIds(lt) : lt.tn[n].node = r.node
                 /\ ~r.ok => r.node = NilPtr
                 /\ k \in TreeKeys(lt) => ~FastFail(lt, k)
        /\ lastOp.op = "Get" =>
              /\ ret.ok <=> lastOp.key \in DOMAIN put
              /\ ret.ok => /\ lt.nd[ret.node].key = lastOp.key
                           /\ lt.nd[ret.node].value = put[lastOp.key]

\* Get has just found the smallest key of a tree of three nodes, below the
\* root, holding a value other than the one its neighbours hold
C5_Witness ==
    /\ kind = "LockingTree" /\ lastOp.op = "Get" /\ ret.ok
    /\ Len(lt.tn) >= 3
    /\ lastOp.key = lt.tn[lt.root].loKey /\ lastOp.key # KeyOf(lt, lt.root)
    /\ \A n \in TreeIds(lt) :
          lt.tn[n].node # ret.node => ValueOf(lt, n) # lt.nd[ret.node].value

\* C6: on every tree a sequence of Put/PutRecurse calls builds and for every
\* key, present or absent, LockingTree.Get and LockingTree.GetRecurse return
\* the same found flag and the same node.
C6_GetAgreesWithGetRecurse ==
    kind = "LockingTree" =>
        \A k \in Keys : LockingTree_Get(lt, k) = LockingTree_GetRecurse(lt, k)

\* GetRecurse has just walked the tree for a key within the root's bounds
\* and missed it
C6_Witness ==
    /\ kind = "LockingTree" /\ lastOp.op = "GetRecurse" /\ ~ret.ok
    /\ ~FastFail(lt, lastOp.key)
    /\ Len(lt.tn) >= 2

\* C7: the same sequence of (key, value) insertions, repeated keys included,
\* applied to an empty LockingTree through Put and through PutRecurse gives the
\* identical tree: same structure, and the same key, value, depth, side and
\* metadata at every node.
C7_PutEquivalence == kind = "Twin" => itree = rtree

SetMin(S) == CHOOSE x \in S : \A y \in S : x <= y
SetMax(S) == CHOOSE x \in S : \A y \in S : y <= x

\* C8: after any sequence of Put/PutRecurse calls every node has
\* count = 1 + countLeft + countRight with countLeft/countRight the sizes of
\* its left/right subtrees, and Count() is the number of distinct keys put.
C8_CountInvariant ==
    kind = "LockingTree" =>
        /\ \A n \in TreeIds(lt) :
              /\ lt.tn[n].count = 1 + lt.tn[n].countLeft + lt.tn[n].countRight
              /\ lt.tn[n].countLeft = Cardinality(SubtreeT(lt, lt.tn[n].left))
              /\ lt.tn[n].countRight = Cardinality(SubtreeT(lt, lt.tn[n].right))
        /\ LockingTree_Count(lt) = Cardinality(DOMAIN put)

\* C9: after any sequence of Put/PutRecurse calls every node's loKey/hiKey are
\* the minimum/maximum key of the subtree rooted at it, itself included, so on
\* a non-empty tree LowestKey()/HighestKey() are the smallest/largest key
\* ever inserted.
C9_KeyBounds ==
    kind = "LockingTree" =>
        /\ \A n \in TreeIds(lt) :
              LET ks == {KeyOf(lt, m) : m \in SubtreeT(lt, n)}
              IN lt.tn[n].loKey = SetMin(ks) /\ lt.tn[n].hiKey = SetMax(ks)
        /\ lt.root # NilPtr =>
              /\ LockingTree_LowestKey(lt) = SetMin(DOMAIN put)
              /\ LockingTree_HighestKey(lt) = SetMax(DOMAIN put)

\* a Put has just attached a new smallest key two levels below the root
C9_Witness ==
    /\ kind = "LockingTree" /\ IsPut /\ ~lastOp.existed
    /\ lt.tn[lt.root].loKey = lastOp.key
    /\ lt.tn[lt.root].left # NilPtr
    /\ KeyOf(lt, lt.tn[lt.root].left) # lastOp.key
    /\ lt.tn[lt.tn[lt.root].left].loKey = lastOp.key

MaxDepth(t, n) ==
    IF n = NilPtr THEN 0
    ELSE SetMax({DepthOf(t, m) : m \in SubtreeT(t, n)})

\* C10: after any sequence of Put/PutRecurse calls every node's depthMax is
\* the maximum Depth() of a node of the subtree rooted at it, and its
\* depthMaxLeft/depthMaxRight the maximum Depth() in its left/right child
\* subtree, or 0 when that child is absent.
C10_DepthMeta ==
    kind = "LockingTree" =>
        \A n \in TreeIds(lt) :
            /\ lt.tn[n].depthMax = MaxDepth(lt, n)
            /\ lt.tn[n].depthMaxLeft = MaxDepth(lt, lt.tn[n].left)
            /\ lt.tn[n].depthMaxRight = MaxDepth(lt, lt.tn[n].right)

\* the wrapper tree the tests build
TestTree == Collect(NewLockingTreeWithKeys(TestKeys))

RECURSIVE PathNodes(_, _)
PathNodes(t, n) ==
    IF n = NilPtr THEN 0
    ELSE 1 + Max(PathNodes(t, t.tn[n].left), PathNodes(t, t.tn[n].right))

\* C12: the LockingTree NewLockingTreeWithKeys builds from 12,11,90,82,7,9
\* reports DepthMax 4, DepthMaxLeft 4 and DepthMaxRight 3; the depth
\* statistics count the root level as 1, DepthMax being the number of nodes on
\* the longest path from the root to a leaf.
C12_TestDepths ==
    kind = "locking.go" =>
        /\ lt.root # NilPtr => DepthOf(lt, lt.root) = 1
        /\ lt = TestTree =>
              /\ LockingTree_DepthMax(lt) = 4
              /\ LockingTree_DepthMaxLeft(lt) = 4
              /\ LockingTree_DepthMaxRight(lt) = 3
              /\ LockingTree_DepthMax(lt) = PathNodes(lt, lt.root)

\* NewLockingTreeWithKeys has returned the tree of the six keys
C12_Witness ==
    /\ kind = "locking.go" /\ lt = TestTree
    /\ Len(lt.tn) = 6 /\ KeyOf(lt, lt.root) = 12

\* C13: in the wrapper a Put or PutRecurse of a key already present makes no
\* second Node object for that key: Get(k) returns the identical node before
\* and after, and a node obtained from Get before the overwrite reports the
\* new value afterwards.
C13_InPlaceOverwrite ==
    [][\A key \in Keys, value \in Values :
          (/\ HoldPut(key, value) \/ HoldPutRecurse(key, value)
           /\ ret.ok /\ ret = LockingTree_Get(lt, key))
          => /\ LockingTree_Get(lt', key) = ret'
             /\ lt'.nd[ret'.node].value = value
             /\ Cardinality({i \in 1..Len(lt'.nd) : lt'.nd[i].key = key}) = 1
      ]_vars

\* C14: on a LockingTree that has had no Put, Count, CountLeft, CountRight,
\* DepthMax, DepthMaxLeft, DepthMaxRight, LowestKey and HighestKey all return
\* 0, and Get(k) and GetRecurse(k) report not-found with a nil node for
\* every key k.
C14_EmptyDefaults ==
    (kind = "LockingTree" /\ put = <<>>) =>
        /\ LockingTree_Count(lt) = 0
        /\ LockingTree_CountLeft(lt) = 0
        /\ LockingTree_CountRight(lt) = 0
        /\ LockingTree_DepthMax(lt) = 0
        /\ LockingTree_DepthMaxLeft(lt) = 0
        /\ LockingTree_DepthMaxRight(lt) = 0
        /\ LockingTree_LowestKey(lt) = 0
        /\ LockingTree_HighestKey(lt) = 0
        /\ \A k \in Keys :
              /\ LockingTree_Get(lt, k) = [node |-> NilPtr, ok |-> FALSE]
              /\ LockingTree_GetRecurse(lt, k) = [node |-> NilPtr, ok |-> FALSE]
        /\ lastOp.op \in {"Get", "GetRecurse"} =>
              ret = [node |-> NilPtr, ok |-> FALSE]

\* GetRecurse has just been called on the tree no Put has touched
C14_Witness ==
    /\ kind = "LockingTree" /\ put = <<>> /\ lt.root = NilPtr
    /\ lastOp.op = "GetRecurse" /\ lastOp.key = MaxKey /\ ~ret.ok

VisitedNodes == {sf.visited[i].node : i \in 1..Len(sf.visited)}
VisitedKeys == {pn[n].key : n \in VisitedNodes}
Searching == sf.pc \notin {"idle", "done"}

\* C15: SearchFunc on a tree of N nodes that nobody modifies, with a visitor
\* that always continues, terminates under every interleaving of the two
\* forked tasks, having called the visitor exactly once on each of the N
\* nodes: none skipped, none twice.
C15_SearchComplete ==
    /\ [](sf.target = NoTarget =>
            /\ \A i, j \in 1..Len(sf.visited) :
                  sf.visited[i].node = sf.visited[j].node => i = j
            /\ sf.pc = "done" => VisitedNodes = 1..Len(pn))
    /\ (Searching /\ sf.target = NoTarget) ~> (sf.pc = "done")

\* the tests' tree has been searched to the end, the right task having run
\* between two visits of the left task
C15_Witness ==
    /\ sf.pc = "done" /\ sf.target = NoTarget /\ Len(pn) = 6
    /\ \E i, j, k \in 1..Len(sf.visited) :
          /\ i < j /\ j < k
          /\ sf.visited[i].by = "left" /\ sf.visited[j].by = "right"
          /\ sf.visited[k].by = "left"

\* C16: with a visitor that returns false exactly on the node of a target key
\* that is in the tree, SearchFunc terminates under every interleaving and
\* the target node is among the nodes visited.
C16_EarlyTermination ==
    /\ []((sf.pc = "done" /\ sf.target # NoTarget) =>
             sf.target \in VisitedKeys)
    /\ (Searching /\ sf.target # NoTarget) ~> (sf.pc = "done")

\* the search for key 9 of the tests' tree is over: the left task found it
\* and the right task was cut short
C16_Witness ==
    /\ sf.pc = "done" /\ sf.target = 9 /\ Len(pn) = 6
    /\ sf.visited[Len(sf.visited)].by = "left"
    /\ pn[sf.visited[Len(sf.visited)].node].key = 9
    /\ VisitedNodes # 1..Len(pn)

\* C17: DeepestNode returns a node of the receiver's subtree whose depth is
\* the greatest in that subtree, a leaf returning itself; where the left and
\* the right branch are equally deep the right one's result is returned, so
\* the node returned is the deepest one with the largest key: key 9 at depth
\* 3 for the tree of 12,11,90,82,7,9.
C17_DeepestNode ==
    lastOp.op = "DeepestNode" =>
        LET rcv == CHOOSE n \in 1..Len(pn) : pn[n].key = lastOp.key
            sub == SubtreeN(pn, rcv)
            deep == SetMax({pn[m].depth : m \in sub})
            r == ret.node
        IN /\ r \in sub
           /\ pn[r].depth = deep
           /\ \A m \in sub : pn[m].depth = deep => pn[m].key <= pn[r].key
           /\ (pn[rcv].left = NilPtr /\ pn[rcv].right = NilPtr) => r = rcv
           /\ (pn \in {Node_NewWithKeys(TestKeys), P3_NewWithKeys(TestKeys)}
                 /\ rcv = 1)
                => pn[r].key = 9 /\ pn[r].depth = 3

\* DeepestNode has been called on a root whose two branches are equally deep
\* and has returned the right branch's deepest node
C17_Witness ==
    /\ lastOp.op = "DeepestNode" /\ lastOp.key = pn[1].key
    /\ pn[1].left # NilPtr /\ pn[1].right # NilPtr
    /\ pn[Node_deepestNode(pn, pn[1].left)].depth = pn[ret.node].depth
    /\ ret.node = Node_deepestNode(pn, pn[1].right)

C19_VisitUnderLock ==
    \A i \in 1..Len(sf.visited) : sf.visited[i].held

\* the node the visitor returns false on, if it has been visited
Stopper == {n \in VisitedNodes : pn[n].key = sf.target}

\* C20: a false from the visitor at the receiver ends the traversal with no
\* other node visited; a false at a descendant X means no descendant of X is
\* ever visited, the task that visited X visits no further node, and once the
\* stop flag is set at most one more visitor call begins in the whole
\* traversal.
C20_StopPropagation ==
    /\ (sf.pc # "idle" /\ sf.target = pn[1].key) => VisitedNodes \subseteq {1}
    /\ \A x \in Stopper :
          /\ VisitedNodes \cap SubtreeN(pn, x) = {x}
          /\ \A i, j \in 1..Len(sf.visited) :
                (sf.visited[i].node = x /\ i < j) =>
                    sf.visited[j].by # sf.visited[i].by
    /\ Cardinality({i \in 1..Len(sf.visited) : sf.visited[i].stop = 1}) <= 1

\* the left task has stopped the search at a node that has a child, and the
\* right task, past its flag check, has made the one visit that follows
C20_Witness ==
    /\ sf.pc = "done" /\ sf.stop = 1
    /\ \E i, j \in 1..Len(sf.visited) :
          /\ i < j
          /\ sf.visited[i].by = "left" /\ pn[sf.visited[i].node].key = sf.target
          /\ pn[sf.visited[i].node].left # NilPtr
          /\ sf.visited[j].by = "right" /\ sf.visited[j].stop = 1

\* the locks the goroutines of the SearchFunc call, of the DeepestNode call hold
SearchLocks == {n \in 1..Len(pn) : sf.mu[n] \in {"main", "left", "right"}}
DeepestLocks ==
    {n \in 1..Len(pn) : sf.mu[n] \in {"dn.main", "dn.left", "dn.right"}}

\* C21: structured join.  SearchFunc and DeepestNode return only after every
\* subtree task they forked has finished: once a call has returned, none of
\* its tasks is left, none of its goroutines holds a node lock or takes one,
\* and the visitor is not called again, also when the traversal was stopped
\* early.
C21_StructuredJoin ==
    /\ [](sf.pc = "done" =>
             sf.left = <<>> /\ sf.right = <<>> /\ SearchLocks = {})
    /\ [](dn.pc = "done" =>
             dn.left = <<>> /\ dn.right = <<>> /\ DeepestLocks = {})
    /\ [][sf.pc = "done" => sf'.pc = "done" /\ sf'.visited = sf.visited]_vars
    /\ [][dn.pc = "done" => dn' = dn /\ ret' = ret]_vars

\* a SearchFunc that the left task stopped after the right task had visited a
\* node has returned, and so has a DeepestNode that forked both its tasks
C21_Witness ==
    /\ sf.pc = "done" /\ sf.stop = 1
    /\ \E i, j \in 1..Len(sf.visited) :
          /\ i < j
          /\ sf.visited[i].by = "right" /\ sf.visited[j].by = "left"
          /\ pn[sf.visited[j].node].key = sf.target
    /\ dn.pc = "done" /\ dn.ln # NilPtr /\ dn.rn # NilPtr

\* the node locks goroutine g holds
LocksOf(g) == {n \in 1..Len(pn) : sf.mu[n] = g}

\* C22: a per-node operation (Put, Get, a SearchFunc subtree task, a
\* DeepestNode task) holds at most one node lock at any moment, so that
\* operations in disjoint subtrees, such as the Puts of a key below and of a
\* key above the root's key, go on at the same time: a Put on the root that
\* has gone down into one branch does not keep a Put for the other branch
\* waiting.
C22_OneLockAtATime ==
    /\ \A g \in Walkers \cup Goroutines \cup {"dn.left", "dn.right"} :
          Cardinality(LocksOf(g)) <= 1
    /\ \A w, v \in Walkers :
          (/\ wk[w].op = "Put" /\ wk[w].rcv = 1 /\ Len(wk[w].path) > 1
           /\ wk[v].op = "Put" /\ wk[v].rcv = 1 /\ Len(wk[v].path) = 1
           /\ (wk[w].key < pn[1].key) # (wk[v].key < pn[1].key)
           /\ wk[v].key # pn[1].key)
             => ENABLED WalkLock(v)

\* some goroutine of some call can take its next step
CanStep ==
    ENABLED (\/ Main \/ Deepest
             \/ \E g \in Goroutines : Task(g) \/ DeepestTask(g)
             \/ \E w \in Walkers : WalkLock(w))

\* C23: deadlock freedom.  Node locks are taken ancestor before descendant,
\* so whatever Put, Get, Left, Right, DeepestNode and SearchFunc calls run
\* concurrently on one tree (the visitor calling no accessor that locks, or
\* Value() alone), some goroutine can always go on, every call returns, and
\* once all have returned no node lock is held.
C23_DeadlockFree ==
    /\ [][\A n \in 1..Len(pn) :
            (sf'.mu[n] # sf.mu[n] /\ sf'.mu[n] # "none") =>
                \A m \in LocksOf(sf'.mu[n]) :
                    m # n /\ n \in SubtreeN(pn, m)]_vars
    /\ [](InFlight > 0 => CanStep)
    /\ [](InFlight = 0 => \A n \in 1..Len(pn) : sf.mu[n] = "none")
    /\ \A w \in Walkers : (wk[w].op # "idle") ~> (wk[w].op = "idle")
    /\ Searching ~> (sf.pc = "done")
    /\ (dn.pc # "idle") ~> (dn.pc = "done")

\* a Put that added a node, a SearchFunc and a DeepestNode that forked have
\* all returned, and every lock is free
C23_Witness ==
    /\ InFlight = 0 /\ calls.made = 1 /\ Len(pn) > Len(ctor.keys)
    /\ sf.pc = "done" /\ Len(sf.visited) > 1
    /\ dn.pc = "done" /\ (dn.ln # NilPtr \/ dn.rn # NilPtr)
    /\ \A n \in 1..Len(pn) : sf.mu[n] = "none"

\* the keys of the Put calls that return in this step
Returning == {wk[w].key : w \in {v \in Walkers : wk[v].op = "Put" /\ wk'[v].op = "idle"}}

\* C24: concurrent Puts on the root lose no insertion and duplicate no key.
\* A child link that is set is never replaced and no node goes away; the
\* return of a Put adds its key to the tree's keys if it is not there, and
\* nothing else changes them, so that when all Puts have returned the keys
\* are the initial keys and the keys Put; no two nodes have one key, also
\* when two Puts of the same new key run at the same time.
C24_ConcurrentPuts ==
    /\ [](~calls.offRoot =>
             \A i, j \in 1..Len(pn) : pn[i].key = pn[j].key => i = j)
    /\ [][/\ Len(pn') >= Len(pn)
           /\ \A n \in 1..Len(pn) :
                 /\ pn'[n].key = pn[n].key
                 /\ pn[n].left # NilPtr => pn'[n].left = pn[n].left
                 /\ pn[n].right # NilPtr => pn'[n].right = pn[n].right
           /\ ~calls.offRoot =>
                 NodeKeys(pn') = NodeKeys(pn) \cup Returning]_vars

\* two Puts of one new key on the root: the first has returned and its node
\* is in the tree, the second is waiting for the root's lock
C24_Witness ==
    /\ ~calls.offRoot /\ calls.made = 2 /\ sf.pc = "idle" /\ dn.pc = "idle"
    /\ \E w \in Walkers :
          /\ wk[w].op = "Put" /\ wk[w].path = <<1>>
          /\ wk[w].key \in NodeKeys(pn)
          /\ \A i \in 1..Len(ctor.keys) : ctor.keys[i] # wk[w].key
          /\ sf.mu[1] = "none"

\* the count, key-bound and depth metadata of every treeNode of t is what
\* the subtree below it makes it
MetaOK(t) ==
    \A n \in TreeIds(t) :
        LET ks == {KeyOf(t, m) : m \in SubtreeT(t, n)}
        IN /\ t.tn[n].count = 1 + t.tn[n].countLeft + t.tn[n].countRight
           /\ t.tn[n].countLeft = Cardinality(SubtreeT(t, t.tn[n].left))
           /\ t.tn[n].countRight = Cardinality(SubtreeT(t, t.tn[n].right))
           /\ t.tn[n].loKey = SetMin(ks) /\ t.tn[n].hiKey = SetMax(ks)
           /\ t.tn[n].depthMax = MaxDepth(t, n)
           /\ t.tn[n].depthMaxLeft = MaxDepth(t, t.tn[n].left)
           /\ t.tn[n].depthMaxRight = MaxDepth(t, t.tn[n].right)

\* while a writer holds the mutex nobody else does
Exclusion ==
    \A t, u \in Threads :
        (rw[t].pc = "meta" /\ u # t) => rw[u].pc \notin {"meta", "in"}

\* C25: the wrapper's Put and PutRecurse are atomic with respect to every
\* other wrapper operation, all of the mutation running under the one
\* exclusive lock, so that the count, key-bound and depth metadata invariants
\* hold in every state a reader can observe; reads may overlap each other.
C25_AtomicPut ==
    /\ Exclusion
    /\ RLocked => MetaOK(lt)

\* the elements of the list the constructor was handed
Elements == {ctor.keys[i] : i \in 1..Len(ctor.keys)}

\* the root of the tree built is the list's first element, and every node's
\* value is its key
RootFirstValuesKeys ==
    IF kind = "locking.go"
    THEN /\ lt.root # NilPtr /\ KeyOf(lt, lt.root) = ctor.keys[1]
         /\ \A n \in TreeIds(lt) : ValueOf(lt, n) = KeyOf(lt, n)
    ELSE /\ pn[1].key = ctor.keys[1]
         /\ \A n \in 1..Len(pn) : pn[n].value = pn[n].key

\* the keys of the tree built
BuiltKeys == IF kind = "locking.go" THEN TreeKeys(lt) ELSE NodeKeys(pn)

\* C26 as it stands: NewWithKeys(keys) and NewLockingTreeWithKeys(keys) build
\* a tree whose key set is exactly the set of distinct elements of keys, an
\* empty list giving a tree with no keys, whose root is the first element of
\* keys, and in which every node's value equals its own key.
C26_KeysOfList ==
    Built =>
        /\ BuiltKeys = Elements
        /\ ctor.keys # <<>> => RootFirstValuesKeys

\* C26, amended: the same for a list that is not empty; for an empty list
\* NewLockingTreeWithKeys gives a tree with no keys, and NewWithKeys gives a
\* root with key 0 and value 0 and nothing below it.
C26_KeysOfListAmended ==
    Built =>
        /\ ctor.keys # <<>> => BuiltKeys = Elements /\ RootFirstValuesKeys
        /\ (ctor.keys = <<>> /\ kind = "locking.go") =>
              lt.root = NilPtr /\ lt.tn = <<>>
        /\ (ctor.keys = <<>> /\ kind # "locking.go") =>
              /\ Len(pn) = 1 /\ pn[1].key = 0 /\ pn[1].value = 0
              /\ pn[1].left = NilPtr /\ pn[1].right = NilPtr

\* NewWithKeys has returned the tree of a list in which a key comes twice,
\* the first element among them
C26_Witness ==
    /\ kind = "gerbst.go" /\ Built
    /\ Len(pn) > 1 /\ Len(ctor.keys) > Len(pn) + 1
    /\ \E i \in 2..Len(ctor.keys) : ctor.keys[i] = ctor.keys[1]

\* C27: Put called on a node other than the root, as Left() and Right() hand
\* one out, keeps the whole tree a binary search tree and its keys unique,
\* whatever key is passed.
C27_SubtreePut ==
    kind \in {"gerbst.go", "part_003"} =>
        /\ OrderedN(pn)
        /\ \A i, j \in 1..Len(pn) : pn[i].key = pn[j].key => i = j

\* C28: a SearchFunc on the root that runs beside a writer calling Put(k1)
\* and then Put(k2) on the root, both keys new, sees a snapshot: the keys it
\* visits are the initial keys, or those and k1, or those and k1 and k2,
\* never k2 without k1.  Nodes lie on the heap in the order they were made:
\* the nodes visited are the initial ones and the first so many made since.
C28_Snapshot ==
    (sf.pc = "done" /\ sf.target = NoTarget /\ ~calls.offRoot) =>
        \E k \in Len(ctor.keys)..Len(pn) : VisitedNodes = 1..k

\* the search has returned having seen the first of two keys Put on the two
\* sides of the root and not the second
C28_Witness ==
    /\ sf.pc = "done" /\ sf.target = NoTarget /\ calls.made = 2
    /\ Len(pn) = Len(ctor.keys) + 2
    /\ VisitedNodes = 1..(Len(ctor.keys) + 1)
    /\ (pn[Len(pn)].key < pn[1].key) # (pn[Len(pn) - 1].key < pn[1].key)
====
